---- MODULE Spec2Model ----
(***************************************************************************)
(* Model of the IF stack of src/ifstack.c: a doubly linked list of heap    *)
(* nodes (one per open IF), the references `stack` (top) and               *)
(* `stack_bottom`, the global truth flag `current_state` and               *)
(* `ifstack_errno`.  Every public function is an operator on the program   *)
(* state, translated statement by statement; the actions apply them.       *)
(***************************************************************************)
EXTENDS Integers, Sequences, FiniteSets

\* ---------------------------------------------------------------- bounds
\* deepest IF nesting the driver opens
MaxDepth == 3

\* ------------------------------------------------------------- constants
NULL == 0
IFSTACK_ERR_OK == 0
IFSTACK_ERR_ELSE_WITHOUT_IF == 1
IFSTACK_ERR_ENDIF_WITHOUT_IF == 2

\* the heap cells malloc() hands out: one more than the deepest nesting
\* needs, so that malloc() always has a choice
EXIT_SUCCESS == 0
EXIT_FAILURE == 1

Addr == 1..(MaxDepth + 1)

VARIABLES
    heap,           \* Addr -> ifstack_t cell (or FreeCell when not allocated)
    stack,          \* static ifstack_t *stack (top of the stack)
    stack_bottom,   \* static ifstack_t *stack_bottom
    current_state,  \* static bool current_state
    ifstack_errno,  \* int ifstack_errno
    exited,         \* the process has called exit(1)
    call,           \* the public call made last: its name, argument, result
    saved,          \* history: ifstack_true() as it was before each open IF
    given,          \* history: the condition given to each open IF
    driver,         \* main(): where it is, parse()'s result, exit status
    remembered      \* history: stack contents and ifstack_true() of an
                    \* earlier state (NoMemo when none was recorded)

vars == <<heap, stack, stack_bottom, current_state, ifstack_errno, exited,
          call, saved, given, driver, remembered>>

\* typedef struct ifstack_s
ifstack_t == [state : BOOLEAN, in_else : BOOLEAN,
              up : Addr \cup {NULL}, down : Addr \cup {NULL}]

\* a cell that is not allocated (never allocated, or freed)
FreeCell == [free |-> TRUE]

NoMemo == [none |-> TRUE]

\* main() is not running: the operations are called directly
NoDriver == [pc |-> "none"]

\* the program's state as one value
St == [heap |-> heap, stack |-> stack, stack_bottom |-> stack_bottom,
       current_state |-> current_state, ifstack_errno |-> ifstack_errno,
       exited |-> exited]

\* cells malloc() may return
Unallocated(h) == {a \in Addr : h[a] = FreeCell}

\* a cell that was freed while it was not allocated
DoubleFreed == [free |-> TRUE, twice |-> TRUE]

\* free(p)
free(h, p) ==
    IF h[p] \in {FreeCell, DoubleFreed}
    THEN [h EXCEPT ![p] = DoubleFreed]
    ELSE [h EXCEPT ![p] = FreeCell]

\* ------------------------------------------------------------ ifstack.c
\* ifstack_push that does not link the new node to the old top
ifstack_push_NoLink(s, node, state) ==
    LET h1 == [s.heap EXCEPT ![node] = [state |-> state, in_else |-> FALSE,
                                        up |-> NULL, down |-> NULL]]
    IN  IF s.stack # NULL
        THEN [s EXCEPT !.heap = [h1 EXCEPT ![s.stack].up = node],
                       !.stack = node]
        ELSE [s EXCEPT !.heap = h1, !.stack_bottom = node, !.stack = node]

\* ifstack_push that leaves node->in_else uninitialized (here: set)
ifstack_push_NoInit(s, node, state) ==
    LET h1 == [s.heap EXCEPT ![node] = [state |-> state, in_else |-> TRUE,
                                        up |-> NULL, down |-> s.stack]]
    IN  IF s.stack # NULL
        THEN [s EXCEPT !.heap = [h1 EXCEPT ![s.stack].up = node],
                       !.stack = node]
        ELSE [s EXCEPT !.heap = h1, !.stack_bottom = node, !.stack = node]

\* static void ifstack_push(bool state); node is what malloc() returned
ifstack_push(s, node, state) ==
    LET h1 == [s.heap EXCEPT ![node] = [state |-> state, in_else |-> FALSE,
                                        up |-> NULL, down |-> s.stack]]
    IN  IF s.stack # NULL
        THEN [s EXCEPT !.heap = [h1 EXCEPT ![s.stack].up = node],
                       !.stack = node]
        ELSE [s EXCEPT !.heap = h1, !.stack_bottom = node, !.stack = node]

\* ifstack_pull that does not clear the new top's up reference
ifstack_pull_KeepUp(s) ==
    IF s.stack = NULL
    THEN [s EXCEPT !.exited = TRUE]
    ELSE LET down == s.heap[s.stack].down
             h1   == free(s.heap, s.stack)
         IN  IF down = NULL
             THEN [s EXCEPT !.heap = h1, !.stack = NULL,
                            !.current_state = TRUE, !.stack_bottom = NULL]
             ELSE [s EXCEPT !.heap = h1,
                            !.stack = down,
                            !.current_state = h1[down].state]

\* ifstack_pull that unlinks the top node without freeing it
ifstack_pull_NoFree(s) ==
    IF s.stack = NULL
    THEN [s EXCEPT !.exited = TRUE]
    ELSE LET down == s.heap[s.stack].down
             h1   == s.heap
         IN  IF down = NULL
             THEN [s EXCEPT !.heap = h1, !.stack = NULL,
                            !.current_state = TRUE, !.stack_bottom = NULL]
             ELSE [s EXCEPT !.heap = [h1 EXCEPT ![down].up = NULL],
                            !.stack = down,
                            !.current_state = h1[down].state]

\* ifstack_pull with the restore of current_state from the new top left out
ifstack_pull_NoRestore(s) ==
    IF s.stack = NULL
    THEN [s EXCEPT !.exited = TRUE]
    ELSE LET down == s.heap[s.stack].down
             h1   == free(s.heap, s.stack)
         IN  IF down = NULL
             THEN [s EXCEPT !.heap = h1, !.stack = NULL,
                            !.current_state = TRUE, !.stack_bottom = NULL]
             ELSE [s EXCEPT !.heap = [h1 EXCEPT ![down].up = NULL],
                            !.stack = down]

\* static void ifstack_pull(void)
ifstack_pull(s) ==
    IF s.stack = NULL
    THEN [s EXCEPT !.exited = TRUE]
    ELSE LET down == s.heap[s.stack].down
             h1   == free(s.heap, s.stack)
         IN  IF down = NULL
             THEN [s EXCEPT !.heap = h1, !.stack = NULL,
                            !.current_state = TRUE, !.stack_bottom = NULL]
             ELSE [s EXCEPT !.heap = [h1 EXCEPT ![down].up = NULL],
                            !.stack = down,
                            !.current_state = h1[down].state]

\* void ifstack_init(void)
ifstack_init(s) ==
    [s EXCEPT !.stack = NULL, !.stack_bottom = NULL,
              !.ifstack_errno = 0, !.current_state = TRUE]

\* the while loop of ifstack_free(): free node and everything below it
RECURSIVE FreeLoop(_, _)
FreeLoop(h, node) ==
    IF node = NULL THEN h
    ELSE LET down == h[node].down IN FreeLoop(free(h, node), down)

\* void ifstack_free(void)
ifstack_free(s) ==
    [s EXCEPT !.heap = FreeLoop(s.heap, s.stack),
              !.stack = NULL, !.stack_bottom = NULL]

\* ifstack_reset without the call of ifstack_init
ifstack_reset_FreeOnly(s) == ifstack_free(s)

\* void ifstack_reset(void)
ifstack_reset(s) == ifstack_init(ifstack_free(s))

\* the for loop of ifstack_print(): the digits from node upwards
RECURSIVE PrintLoop(_, _)
PrintLoop(h, node) ==
    IF node = NULL THEN <<>>
    ELSE <<IF h[node].state THEN 1 ELSE 0>> \o PrintLoop(h, h[node].up)

\* a print loop that starts at the top and follows node->down
RECURSIVE PrintLoopDown(_, _)
PrintLoopDown(h, node) ==
    IF node = NULL THEN <<>>
    ELSE <<IF h[node].state THEN 1 ELSE 0>> \o PrintLoopDown(h, h[node].down)

\* ifstack_print that walks from the top of the stack downwards
ifstack_print_TopFirst(s) == PrintLoopDown(s.heap, s.stack)

\* void ifstack_print(void): what is written between '[' and ']'
ifstack_print(s) == PrintLoop(s.heap, s.stack_bottom)

\* bool ifstack_true(void)
ifstack_true(s) == s.current_state

\* ifstack_if that updates current_state only for the outermost IF
ifstack_if_OnlyAtBottom(s, node, state) ==
    LET s1   == ifstack_push(s, node, state)
        down == s1.heap[s1.stack].down
    IN  IF down = NULL
        THEN [s1 EXCEPT !.current_state = state]
        ELSE s1

\* ifstack_if that pushes without looking at the parent and always takes
\* the new condition as the global one
ifstack_if_IgnoreParent(s, node, state) ==
    [ifstack_push(s, node, state) EXCEPT !.current_state = state]

\* void ifstack_if(bool state)
ifstack_if(s, node, state) ==
    LET s1   == ifstack_push(s, node, state)
        down == s1.heap[s1.stack].down
    IN  IF down = NULL \/ (down # NULL /\ s1.heap[down].state)
        THEN [s1 EXCEPT !.current_state = state]
        ELSE s1

\* ifstack_else that sets in_else but does not invert stack->state
ifstack_else_NoInvert(s) ==
    IF s.stack = NULL \/ s.heap[s.stack].in_else
    THEN [st  |-> [s EXCEPT !.ifstack_errno = IFSTACK_ERR_ELSE_WITHOUT_IF],
          ret |-> FALSE]
    ELSE LET top  == s.stack
             h1   == [s.heap EXCEPT ![top].in_else = TRUE]
             down == h1[top].down
             cs   == IF s.current_state THEN FALSE
                     ELSE IF down # NULL
                          THEN (IF h1[down].state THEN TRUE
                                ELSE s.current_state)
                          ELSE TRUE
         IN  [st  |-> [s EXCEPT !.heap = h1, !.current_state = cs],
              ret |-> TRUE]

\* ifstack_else without the test of stack->in_else
ifstack_else_NoElseCheck(s) ==
    IF s.stack = NULL
    THEN [st  |-> [s EXCEPT !.ifstack_errno = IFSTACK_ERR_ELSE_WITHOUT_IF],
          ret |-> FALSE]
    ELSE LET top  == s.stack
             h1   == [s.heap EXCEPT ![top].in_else = TRUE,
                                    ![top].state = ~s.heap[top].state]
             down == h1[top].down
             cs   == IF s.current_state THEN FALSE
                     ELSE IF down # NULL
                          THEN (IF h1[down].state THEN TRUE
                                ELSE s.current_state)
                          ELSE TRUE
         IN  [st  |-> [s EXCEPT !.heap = h1, !.current_state = cs],
              ret |-> TRUE]

\* bool ifstack_else(void): the state after the call and the value returned
ifstack_else(s) ==
    IF s.stack = NULL \/ s.heap[s.stack].in_else
    THEN [st  |-> [s EXCEPT !.ifstack_errno = IFSTACK_ERR_ELSE_WITHOUT_IF],
          ret |-> FALSE]
    ELSE LET top  == s.stack
             h1   == [s.heap EXCEPT ![top].in_else = TRUE,
                                    ![top].state = ~s.heap[top].state]
             down == h1[top].down
             cs   == IF s.current_state THEN FALSE
                     ELSE IF down # NULL
                          THEN (IF h1[down].state THEN TRUE
                                ELSE s.current_state)
                          ELSE TRUE
         IN  [st  |-> [s EXCEPT !.heap = h1, !.current_state = cs],
              ret |-> TRUE]

\* ifstack_endif without the test for the empty stack
ifstack_endif_NoGuard(s) == [st |-> ifstack_pull(s), ret |-> TRUE]

\* ifstack_endif reporting the error code of ifstack_else
ifstack_endif_WrongErrno(s) ==
    IF s.stack = NULL
    THEN [st  |-> [s EXCEPT !.ifstack_errno = IFSTACK_ERR_ELSE_WITHOUT_IF],
          ret |-> FALSE]
    ELSE [st |-> ifstack_pull(s), ret |-> TRUE]

\* bool ifstack_endif(void): the state after the call and the value returned
ifstack_endif(s) ==
    IF s.stack = NULL
    THEN [st  |-> [s EXCEPT !.ifstack_errno = IFSTACK_ERR_ENDIF_WITHOUT_IF],
          ret |-> FALSE]
    ELSE [st |-> ifstack_pull(s), ret |-> TRUE]

\* ------------------------------------------------- reading the structure
\* the nodes from n downwards, top first
RECURSIVE ChainDown(_, _)
ChainDown(h, n) ==
    IF n = NULL THEN <<>> ELSE <<n>> \o ChainDown(h, h[n].down)

\* the nodes from n upwards, bottom first
RECURSIVE ChainUp(_, _)
ChainUp(h, n) ==
    IF n = NULL THEN <<>> ELSE <<n>> \o ChainUp(h, h[n].up)

Reverse(q) == [i \in 1..Len(q) |-> q[Len(q) + 1 - i]]

\* the open levels, outermost first
Levels == Reverse(ChainDown(heap, stack))
Depth == Len(Levels)

\* effective condition of the level at address a: the code inverts
\* node->state in place when ELSE is taken
Effective(h, a) == h[a].state
\* the condition that was given to ifstack_if for the level at address a
Raw(h, a) == IF h[a].in_else THEN ~h[a].state ELSE h[a].state

\* condition given to IF and ELSE flag of every open level, outermost first
Contents == [i \in 1..Depth |->
                [cond |-> Raw(heap, Levels[i]),
                 in_else |-> heap[Levels[i]].in_else]]

\* ---------------------------------------------------------------- actions
Set(s) ==
    /\ heap' = s.heap
    /\ stack' = s.stack
    /\ stack_bottom' = s.stack_bottom
    /\ current_state' = s.current_state
    /\ ifstack_errno' = s.ifstack_errno
    /\ exited' = s.exited

Init ==
    /\ heap = [a \in Addr |-> FreeCell]
    /\ stack = NULL
    /\ stack_bottom = NULL
    /\ ifstack_errno = 0
    /\ current_state = TRUE
    /\ exited = FALSE
    /\ call = [op |-> "init"]
    /\ saved = <<>>
    /\ given = <<>>
    /\ driver = NoDriver
    /\ remembered = NoMemo

\* handle_if: ifstack_if(b)
If(b) ==
    /\ ~exited
    /\ Depth < MaxDepth
    /\ \E node \in Unallocated(heap) : Set(ifstack_if(St, node, b))
    /\ call' = [op |-> "if", arg |-> b]
    /\ saved' = Append(saved, current_state)
    /\ given' = Append(given, b)
    /\ UNCHANGED <<driver, remembered>>

\* handle_else: ifstack_else()
Else ==
    /\ ~exited
    /\ LET r == ifstack_else(St)
       IN  Set(r.st) /\ call' = [op |-> "else", ret |-> r.ret]
    /\ UNCHANGED <<saved, given, driver, remembered>>

\* handle_endif: ifstack_endif()
Endif ==
    /\ ~exited
    /\ LET r == ifstack_endif(St)
       IN  /\ Set(r.st)
           /\ call' = [op |-> "endif", ret |-> r.ret]
           /\ saved' = IF r.ret THEN SubSeq(saved, 1, Len(saved) - 1)
                       ELSE saved
           /\ given' = IF r.ret THEN SubSeq(given, 1, Len(given) - 1)
                       ELSE given
    /\ UNCHANGED <<driver, remembered>>

\* ifstack_reset()
Reset ==
    /\ ~exited
    /\ Set(ifstack_reset(St))
    /\ call' = [op |-> "reset"]
    /\ saved' = <<>>
    /\ given' = <<>>
    /\ UNCHANGED <<driver, remembered>>

\* ifstack_free()
Free ==
    /\ ~exited
    /\ Set(ifstack_free(St))
    /\ call' = [op |-> "free"]
    /\ saved' = <<>>
    /\ given' = <<>>
    /\ UNCHANGED <<driver, remembered>>

\* handle_text: ifstack_true()
True ==
    /\ ~exited
    /\ call' = [op |-> "true", ret |-> ifstack_true(St)]
    /\ UNCHANGED <<heap, stack, stack_bottom, current_state, ifstack_errno,
                   exited, saved, given, driver, remembered>>

\* handle_line: ifstack_print()
PrintStack ==
    /\ ~exited
    /\ call' = [op |-> "print", ret |-> ifstack_print(St)]
    /\ UNCHANGED <<heap, stack, stack_bottom, current_state, ifstack_errno,
                   exited, saved, given, driver, remembered>>

\* every public operation, from the state ifstack_init leaves
Next ==
    \/ \E b \in BOOLEAN : If(b)
    \/ Else
    \/ Endif
    \/ Reset
    \/ Free
    \/ True
    \/ PrintStack

Spec == Init /\ [][Next]_vars

\* only IF, ELSE and ENDIF, from the state ifstack_init leaves
NextCore ==
    \/ \E b \in BOOLEAN : If(b)
    \/ Else
    \/ Endif

SpecCore == Init /\ [][NextCore]_vars

\* ifstack_init() called again, while the stack is empty
InitEmpty ==
    /\ ~exited
    /\ stack = NULL
    /\ Set(ifstack_init(St))
    /\ call' = [op |-> "init"]
    /\ saved' = <<>>
    /\ given' = <<>>
    /\ UNCHANGED <<driver, remembered>>

\* every public operation, ifstack_init only on the empty stack
NextOwned ==
    \/ Next
    \/ InitEmpty

SpecOwned == Init /\ [][NextOwned]_vars

\* IF, ELSE and ENDIF in a document that never nests deeper than two
NextShallow ==
    \/ \E b \in BOOLEAN : Depth < 2 /\ If(b)
    \/ Else
    \/ Endif

SpecShallow == Init /\ [][NextShallow]_vars

\* an observer records the stack contents and ifstack_true() of the state
\* the program is in, to compare a later state with it
Remember ==
    /\ ~exited
    /\ remembered = NoMemo
    /\ remembered' = [contents |-> Contents, active |-> ifstack_true(St)]
    /\ UNCHANGED <<heap, stack, stack_bottom, current_state, ifstack_errno,
                   exited, call, saved, given, driver>>

\* IF, ELSE and ENDIF, an observer, and ifstack_reset to start another run
\* from the state ifstack_init leaves
NextDrift ==
    \/ \E b \in BOOLEAN : If(b)
    \/ Else
    \/ Endif
    \/ Reset
    \/ Remember

SpecDrift == Init /\ [][NextDrift]_vars

\* ---------------------------------------------------------------- main.c
\* what handle_line() can find on a line: IF with a condition, IF without
\* an argument, ELSE, ENDIF, or other text
LineKinds ==
    [kind : {"if"}, arg : BOOLEAN]
        \cup {[kind |-> k] : k \in {"if_noarg", "else", "endif", "text"}}

\* static bool handle_line(void): the state after the call, the value
\* returned and what ifstack_print() wrote; node is what malloc() returns
\* to ifstack_push
handle_line(s, line, node) ==
    LET r == CASE line.kind = "if" ->
                    [st |-> ifstack_if(s, node, line.arg), ret |-> TRUE]
               [] line.kind = "if_noarg" -> [st |-> s, ret |-> FALSE]
               [] line.kind = "else" -> ifstack_else(s)
               [] line.kind = "endif" -> ifstack_endif(s)
               [] OTHER -> [st |-> s, ret |-> TRUE]
    IN  [st |-> r.st, ret |-> r.ret, printed |-> ifstack_print(r.st)]

\* the static variables before main() runs: zero-initialized
InitMain ==
    /\ heap = [a \in Addr |-> FreeCell]
    /\ stack = NULL
    /\ stack_bottom = NULL
    /\ ifstack_errno = 0
    /\ current_state = FALSE
    /\ exited = FALSE
    /\ call = [op |-> "none"]
    /\ saved = <<>>
    /\ given = <<>>
    /\ driver = [pc |-> "start"]
    /\ remembered = NoMemo

\* main(): argc < 2, usage and EXIT_FAILURE
MainUsage ==
    /\ driver.pc = "start"
    /\ driver' = [pc |-> "returned", parsed |-> FALSE,
                  status |-> EXIT_FAILURE]
    /\ UNCHANGED <<heap, stack, stack_bottom, current_state, ifstack_errno,
                   exited, call, saved, given, remembered>>

\* main(): --help, usage and EXIT_SUCCESS
MainHelp ==
    /\ driver.pc = "start"
    /\ driver' = [pc |-> "returned", parsed |-> FALSE,
                  status |-> EXIT_SUCCESS]
    /\ UNCHANGED <<heap, stack, stack_bottom, current_state, ifstack_errno,
                   exited, call, saved, given, remembered>>

\* the end of main() once parse() has returned parse_ret: the status, then
\* ifstack_free()
MainReturn(s, parse_ret, failed) ==
    /\ Set(ifstack_free(s))
    /\ driver' = [pc |-> "returned", parsed |-> TRUE, failed |-> failed,
                  parse_ret |-> parse_ret,
                  status |-> IF ~parse_ret THEN EXIT_FAILURE
                             ELSE EXIT_SUCCESS]
    /\ saved' = <<>>
    /\ given' = <<>>

\* main(): ifstack_init(), then parse() fails to open the file and
\* returns false
MainOpenFails ==
    /\ driver.pc = "start"
    /\ MainReturn(ifstack_init(St), FALSE, TRUE)
    /\ call' = [op |-> "fopen", ret |-> FALSE]
    /\ UNCHANGED remembered

\* main(): ifstack_init(), then parse() opens the file
MainOpen ==
    /\ driver.pc = "start"
    /\ Set(ifstack_init(St))
    /\ driver' = [pc |-> "parse"]
    /\ call' = [op |-> "fopen", ret |-> TRUE]
    /\ UNCHANGED <<saved, given, remembered>>

\* parse(): fgets() returns NULL, break, cleanup, return true
ParseEnd ==
    /\ driver.pc = "parse"
    /\ ~exited
    /\ MainReturn(St, TRUE, FALSE)
    /\ call' = [op |-> "fgets", ret |-> FALSE]
    /\ UNCHANGED remembered

\* parse(): one pass of the loop on a line; when handle_line() fails the
\* loop is left through cleanup, when it succeeds the loop goes on unless
\* feof() is true; both ways out end in return true
ParseLine(line, eof) ==
    /\ driver.pc = "parse"
    /\ ~exited
    /\ line.kind = "if" => Depth < MaxDepth
    /\ \E node \in Unallocated(heap) :
          LET r == handle_line(St, line, node)
          IN  /\ call' = [op |-> "handle_line", line |-> line,
                          ret |-> r.ret, printed |-> r.printed]
              /\ IF r.ret /\ ~eof
                 THEN /\ Set(r.st)
                      /\ driver' = [pc |-> "parse"]
                      /\ saved' =
                           CASE line.kind = "if" ->
                                  Append(saved, current_state)
                             [] line.kind = "endif" ->
                                  SubSeq(saved, 1, Len(saved) - 1)
                             [] OTHER -> saved
                      /\ given' =
                           CASE line.kind = "if" -> Append(given, line.arg)
                             [] line.kind = "endif" ->
                                  SubSeq(given, 1, Len(given) - 1)
                             [] OTHER -> given
                 ELSE MainReturn(r.st, TRUE, ~r.ret)
    /\ UNCHANGED remembered

\* the program of main.c on any command line and any file
NextMain ==
    \/ MainUsage
    \/ MainHelp
    \/ MainOpenFails
    \/ MainOpen
    \/ ParseEnd
    \/ \E line \in LineKinds, eof \in BOOLEAN : ParseLine(line, eof)

SpecMain == InitMain /\ [][NextMain]_vars

TypeOK ==
    /\ heap \in [Addr -> ifstack_t \cup {FreeCell}]
    /\ stack \in Addr \cup {NULL}
    /\ stack_bottom \in Addr \cup {NULL}
    /\ current_state \in BOOLEAN
    /\ ifstack_errno \in 0..2
    /\ exited \in BOOLEAN

\* ------------------------------------------------------------- properties
\* some open level has effective condition false
SomeLevelFalse == \E i \in 1..Depth : ~Effective(heap, Levels[i])
\* some level below the top has effective condition false
SomeAncestorFalse == \E i \in 1..(Depth - 1) : ~Effective(heap, Levels[i])
\* every open level has effective condition true
AllLevelsTrue == \A i \in 1..Depth : Effective(heap, Levels[i])

\* C1: ancestor dominance: when some open level has effective condition
\* false, ifstack_true() is false.
C1_AncestorDominance == SomeLevelFalse => ~ifstack_true(St)

\* C2: structural no-op: after the ENDIF that matches an IF, ifstack_true()
\* is what it was just before that IF.
C2_StructuralNoOp ==
    [][(call'.op = "endif" /\ call'.ret)
         => current_state' = saved[Len(saved)]]_vars

\* C3: after a successful ELSE, ifstack_true() is false when some level
\* below the top has effective condition false.
C3_ElseDominated ==
    (call.op = "else" /\ call.ret /\ SomeAncestorFalse) => ~ifstack_true(St)

\* C4: after ifstack_if(c), ifstack_true() is c AND the value it had before
\* the call.
C4_IfIsAnd ==
    [][call'.op = "if" => current_state' = (call'.arg /\ current_state)]_vars

\* C5: ifstack_if(true) under a true ifstack_true() leaves it true, and
\* ifstack_if(false) always makes it false.
C5_IfTrueIfFalse ==
    [][call'.op = "if"
         => /\ (call'.arg /\ current_state) => current_state'
            /\ ~call'.arg => ~current_state']_vars

\* if(false) under a level whose effective condition is false, two deep
C5_Witness ==
    /\ call.op = "if" /\ ~call.arg
    /\ Depth = 3
    /\ ~Effective(heap, Levels[2])
    /\ ~current_state

\* C6: ifstack_else() is rejected exactly when the stack is empty or the top
\* level already took its ELSE; a rejected call returns false, sets
\* ifstack_errno to IFSTACK_ERR_ELSE_WITHOUT_IF and changes neither the
\* stack nor ifstack_true().
C6_ElseRejected ==
    [][call'.op = "else"
         => LET rejected == stack = NULL \/ heap[stack].in_else
            IN  /\ call'.ret = ~rejected
                /\ rejected =>
                     /\ ifstack_errno' = IFSTACK_ERR_ELSE_WITHOUT_IF
                     /\ heap' = heap
                     /\ stack' = stack
                     /\ stack_bottom' = stack_bottom
                     /\ current_state' = current_state]_vars

\* a second ELSE at the same level, rejected, under an open outer level
C6_Witness ==
    /\ call.op = "else" /\ ~call.ret
    /\ Depth = 2
    /\ heap[stack].in_else
    /\ ifstack_errno = IFSTACK_ERR_ELSE_WITHOUT_IF

\* C7: ifstack_endif() is rejected exactly when the stack is empty; a
\* rejected call returns false, sets ifstack_errno to
\* IFSTACK_ERR_ENDIF_WITHOUT_IF, leaves the stack empty and ifstack_true()
\* as it was; on a non-empty stack it returns true.
C7_EndifRejected ==
    [][call'.op = "endif"
         => /\ call'.ret = (stack # NULL)
            /\ stack = NULL =>
                 /\ ifstack_errno' = IFSTACK_ERR_ENDIF_WITHOUT_IF
                 /\ stack' = NULL
                 /\ stack_bottom' = NULL
                 /\ heap' = heap
                 /\ current_state' = current_state]_vars

\* an ENDIF rejected on the empty stack
C7_Witness ==
    /\ call.op = "endif" /\ ~call.ret
    /\ stack = NULL
    /\ Unallocated(heap) = Addr
    /\ ifstack_errno = IFSTACK_ERR_ENDIF_WITHOUT_IF

\* C8: whenever the stack is empty, ifstack_true() is true.
C8_EmptyIsActive == stack = NULL => ifstack_true(St)

\* C9: when at least one level is open and every open level has effective
\* condition true, ifstack_true() is true.
C9_AllSelectedActive == (Depth >= 1 /\ AllLevelsTrue) => ifstack_true(St)

\* three levels, all selected, the innermost through its ELSE
C9_Witness ==
    /\ Depth = 3
    /\ AllLevelsTrue
    /\ heap[stack].in_else
    /\ current_state

\* C10: no drift: a state with the same open levels (same condition, same
\* ELSE flag at every level) as a state recorded earlier has the same
\* ifstack_true().
C10_NoDrift ==
    (remembered # NoMemo /\ remembered.contents = Contents)
        => remembered.active = ifstack_true(St)

\* the addresses of the open levels
OnStack == {Levels[i] : i \in 1..Depth}

\* C11: at most one ELSE per level: a level (a node, from its allocation
\* by IF to its release) opens with its ELSE flag false, ifstack_else()
\* succeeds only on a level whose flag is false and sets it, and no step
\* clears the flag of a level that stays open.
C11_OneElsePerLevel ==
    [][/\ (call'.op = "else" /\ call'.ret)
            => (~heap[stack].in_else /\ heap'[stack].in_else)
       /\ \A a \in Addr :
            heap'[a] # FreeCell
              => IF heap[a] = FreeCell
                 THEN ~heap'[a].in_else
                 ELSE heap[a].in_else => heap'[a].in_else]_vars

\* back on a level that took its ELSE, after a deeper level was closed
C11_Witness ==
    /\ call.op = "endif" /\ call.ret
    /\ Depth >= 1
    /\ heap[stack].in_else

\* C12: ifstack_print() writes one digit per open level, outermost first,
\* each the condition given to that level's IF, negated exactly when the
\* level took its ELSE; it changes neither the stack nor ifstack_true().
C12_PrintIsEffective ==
    [][call'.op = "print"
         => /\ call'.ret =
                 [i \in 1..Len(given) |->
                     IF given[i] # heap[Levels[i]].in_else THEN 1 ELSE 0]
            /\ UNCHANGED <<heap, stack, stack_bottom, current_state,
                           ifstack_errno>>]_vars

\* three levels printed, the outermost in its ELSE branch
C12_Witness ==
    /\ call.op = "print"
    /\ call.ret = <<0, 1, 0>>
    /\ heap[Levels[1]].in_else
    /\ ~heap[Levels[3]].in_else

\* C13: the stack depth is the IF nesting depth: IF adds one, a successful
\* ENDIF removes one, ELSE, a rejected ENDIF, ifstack_true and
\* ifstack_print leave it, ifstack_reset makes it 0.
C13_DepthIsNesting ==
    [][LET before == Len(ChainDown(heap, stack))
           after  == Len(ChainDown(heap', stack'))
       IN  /\ after = Len(given')
           /\ call'.op = "if" => after = before + 1
           /\ (call'.op = "endif" /\ call'.ret) => after = before - 1
           /\ (call'.op = "endif" /\ ~call'.ret)
                => (after = before /\ before = 0)
           /\ call'.op \in {"else", "true", "print"} => after = before
           /\ call'.op = "reset" => after = 0]_vars

\* a successful ENDIF from depth 3 to depth 2
C13_Witness ==
    /\ call.op = "endif" /\ call.ret
    /\ Depth = 2
    /\ Len(given) = 2

\* C14: ifstack_reset() leaves the state ifstack_init leaves (empty stack,
\* ifstack_true() true, ifstack_errno 0), and a second ifstack_reset()
\* changes nothing.
C14_ResetIsInit ==
    [][call'.op = "reset"
         => /\ stack' = NULL /\ stack_bottom' = NULL
            /\ current_state'
            /\ ifstack_errno' = 0
            /\ ifstack_reset(St') = St']_vars

\* a reset has run and the state is the initial one
C14_Witness ==
    /\ call.op = "reset"
    /\ stack = NULL
    /\ Unallocated(heap) = Addr
    /\ ifstack_true(St)
    /\ ifstack_errno = 0

\* C15: when main() has run parse(), parse() returned true exactly when
\* the file was opened and no line's handler failed, and main() returns
\* EXIT_SUCCESS exactly in that case, EXIT_FAILURE otherwise.
C15_DriverReportsFailure ==
    (driver.pc = "returned" /\ driver.parsed)
        => /\ driver.parse_ret = ~driver.failed
           /\ (driver.status = EXIT_SUCCESS) = ~driver.failed

\* C16: while the nesting never exceeds two levels, after every step
\* ifstack_true() is the AND of the effective conditions of the open
\* levels (true when no level is open).
C16_ShallowExact == ifstack_true(St) = AllLevelsTrue

\* the first scenario after its inner ELSE: IF(true), IF(false), ELSE
C16_Witness ==
    /\ call.op = "else" /\ call.ret
    /\ given = <<TRUE, FALSE>>
    /\ ~heap[Levels[1]].in_else
    /\ heap[Levels[2]].in_else
    /\ ifstack_true(St)

\* the second scenario after its inner ELSE: IF(false), IF(true), ELSE
C16_Dominated ==
    /\ call.op = "else" /\ call.ret
    /\ given = <<FALSE, TRUE>>
    /\ ~heap[Levels[1]].in_else
    /\ heap[Levels[2]].in_else
    /\ ~ifstack_true(St)

\* C17: a successful ifstack_else() inverts the top level's effective
\* condition and sets its ELSE flag; the depth, the top's links and every
\* other level stay as they were.
C17_ElseOnlyTop ==
    [][(call'.op = "else" /\ call'.ret)
         => /\ stack' = stack /\ stack_bottom' = stack_bottom
            /\ heap'[stack].state = ~heap[stack].state
            /\ heap'[stack].in_else
            /\ heap'[stack].down = heap[stack].down
            /\ heap'[stack].up = heap[stack].up
            /\ \A a \in Addr \ {stack} : heap'[a] = heap[a]]_vars

\* a successful ELSE on the third level
C17_Witness ==
    /\ call.op = "else" /\ call.ret
    /\ Depth = 3
    /\ heap[stack].in_else
    /\ heap[stack].state = ~given[3]

\* C18: the exit(1) branch of ifstack_pull is never taken: an ENDIF on the
\* empty stack is a returned error.
C18_PullNeverExits ==
    /\ ~exited
    /\ (call.op = "endif" /\ ~call.ret)
         => (stack = NULL /\ ifstack_errno = IFSTACK_ERR_ENDIF_WITHOUT_IF)

\* an unbalanced ENDIF after a balanced IF/ENDIF, reported, process alive
C18_Witness ==
    /\ call.op = "endif" /\ ~call.ret
    /\ ~exited
    /\ Len(given) = 0
    /\ ifstack_true(St)

\* C19: stack_bottom is NULL iff stack is NULL; the top has no up and the
\* bottom no down; the up-chain from stack_bottom is the down-chain from
\* stack reversed, and has as many nodes as there are open IFs.
C19_ChainIntegrity ==
    /\ (stack_bottom = NULL) = (stack = NULL)
    /\ stack # NULL => heap[stack].up = NULL
    /\ stack_bottom # NULL => heap[stack_bottom].down = NULL
    /\ ChainUp(heap, stack_bottom) = Reverse(ChainDown(heap, stack))
    /\ Len(ChainDown(heap, stack)) = Len(given)

\* two levels left after an ENDIF, the chain intact both ways
C19_Witness ==
    /\ call.op = "endif" /\ call.ret
    /\ Len(given) = 2
    /\ ChainUp(heap, stack_bottom) = Levels
    /\ heap[stack].up = NULL

\* C20: no cell is freed twice; the allocated cells are exactly the nodes
\* on the stack; after ifstack_free or ifstack_reset no cell is allocated
\* and stack and stack_bottom are NULL.
C20_NoLeakNoDoubleFree ==
    /\ \A a \in Addr : heap[a] # DoubleFreed
    /\ {a \in Addr : heap[a] # FreeCell} = OnStack
    /\ call.op \in {"free", "reset"}
         => /\ Unallocated(heap) = Addr
            /\ stack = NULL /\ stack_bottom = NULL

\* one node left allocated after the ENDIF of a nested level
C20_Witness ==
    /\ call.op = "endif" /\ call.ret
    /\ Cardinality(Addr \ Unallocated(heap)) = 1
    /\ OnStack = {stack}
====
